---- MODULE Spec2Model ----
(***************************************************************************)
(* RocStr (roc_std/src/roc_str.rs): the small-string / shared-heap string  *)
(* value, its construction, clone, drop, comparison, and the conversion    *)
(* temp_c_utf8 to a NUL-terminated buffer.                                 *)
(*                                                                         *)
(* Memory is modelled byte by byte.  A heap allocation of a RocList<u8> is *)
(* a sequence of bytes: HeaderBytes bytes of reference count (little       *)
(* endian) followed by `capacity` element bytes.  RocList itself and the   *)
(* allocator (roc_alloc / roc_dealloc) are collaborators whose code is not *)
(* part of roc_str.rs; they are modelled from their documented interface.  *)
(* A 64-bit little-endian target is assumed (size_of::<RocList<u8>>() =    *)
(* 24, so CAPACITY = 23).                                                  *)
(***************************************************************************)
EXTENDS Integers, Sequences, FiniteSets, Bags, TLC

(***************************************************************************)
(* Program constants.                                                      *)
(***************************************************************************)
MASK == 128
CAPACITY == 23
TEMP_CSTR_MAX_STACK_BYTES == 64
U8Max == 255
HeaderBytes == 8

(***************************************************************************)
(* Bounds of the model.                                                    *)
(***************************************************************************)
MaxStrs == 2      \* RocStr values alive at once
MaxExtra == 1     \* excess capacity (capacity - length) of a received list
MaxPat == 2       \* distinct byte patterns of the inputs

(***************************************************************************)
(* Option values.                                                          *)
(***************************************************************************)
None == [some |-> FALSE, v |-> 0]
Some(x) == [some |-> TRUE, v |-> x]

(***************************************************************************)
(* The heap: allocation ids; id 0 is the null pointer.  The allocator has  *)
(* room for as many allocations as there can be values.                    *)
(***************************************************************************)
AllocIds == 1..MaxStrs
FreeCell == [live |-> FALSE, kind |-> "free", mem |-> << >>]
EmptyHeap == [a \in AllocIds |-> FreeCell]
HasFree(hp) == \E a \in AllocIds : ~hp[a].live
FreshAlloc(hp) == CHOOSE a \in AllocIds : ~hp[a].live /\ \A b \in AllocIds : ~hp[b].live => a <= b

\* Memory handed out by the allocator is uninitialised; no modelled code reads
\* it before writing it.  It is filled with a non-zero byte so that a missing
\* terminator write is visible.
Uninit == U8Max
Filled(n) == [i \in 1..n |-> Uninit]

roc_alloc(hp, size, kind) ==
    [hp EXCEPT ![FreshAlloc(hp)] = [live |-> TRUE, kind |-> kind, mem |-> Filled(size)]]
roc_dealloc(hp, a) == [hp EXCEPT ![a] = FreeCell]

(***************************************************************************)
(* The reference count header, kept as its bytes (little endian).          *)
(***************************************************************************)
RECURSIVE IncAt(_, _)
IncAt(b, i) ==
    IF i > Len(b) THEN b
    ELSE IF b[i] < U8Max THEN [b EXCEPT ![i] = @ + 1]
    ELSE IncAt([b EXCEPT ![i] = 0], i + 1)
RECURSIVE DecAt(_, _)
DecAt(b, i) ==
    IF i > Len(b) THEN b
    ELSE IF b[i] > 0 THEN [b EXCEPT ![i] = @ - 1]
    ELSE DecAt([b EXCEPT ![i] = U8Max], i + 1)
IsZero(b) == \A i \in 1..Len(b) : b[i] = 0
One == [i \in 1..HeaderBytes |-> IF i = 1 THEN 1 ELSE 0]
Header(hp, a) == SubSeq(hp[a].mem, 1, HeaderBytes)
SetHeader(hp, a, h) ==
    [hp EXCEPT ![a].mem = [i \in 1..Len(@) |-> IF i <= HeaderBytes THEN h[i] ELSE @[i]]]

(***************************************************************************)
(* RocList<u8>: elements (0 = None), length, capacity.                     *)
(***************************************************************************)
EmptyList == [elements |-> 0, length |-> 0, capacity |-> 0]

\* RocList::from_slice: an empty slice gives the empty list, without allocating.
\* Otherwise one allocation of header + capacity bytes, reference count 1.
RocList_with(slice, cap, hp) ==
    IF cap = 0 THEN [list |-> EmptyList, hp |-> hp]
    ELSE LET a == FreshAlloc(hp)
             mem == [i \in 1..(HeaderBytes + cap) |->
                        IF i <= HeaderBytes THEN One[i]
                        ELSE IF i - HeaderBytes <= Len(slice) THEN slice[i - HeaderBytes]
                        ELSE Uninit]
         IN [list |-> [elements |-> a, length |-> Len(slice), capacity |-> cap],
             hp |-> [hp EXCEPT ![a] = [live |-> TRUE, kind |-> "list", mem |-> mem]]]
RocList_from_slice(slice, hp) == RocList_with(slice, Len(slice), hp)

\* Deref of RocList<u8>: the slice elements[0..length).
RocList_deref(l, hp) ==
    IF l.elements = 0 THEN << >>
    ELSE SubSeq(hp[l.elements].mem, HeaderBytes + 1, HeaderBytes + l.length)

\* storage.get().is_unique()
is_unique(l, hp) == Header(hp, l.elements) = One

\* Clone for RocList: one more share, no byte is copied.
RocList_clone(l, hp) ==
    IF l.elements = 0 THEN hp
    ELSE SetHeader(hp, l.elements, IncAt(Header(hp, l.elements), 1))

\* Drop for RocList: one share less; the allocation is freed at zero.
RocList_drop(l, hp) ==
    IF l.elements = 0 THEN hp
    ELSE LET d == DecAt(Header(hp, l.elements), 1)
         IN IF IsZero(d) THEN roc_dealloc(hp, l.elements)
            ELSE SetHeader(hp, l.elements, d)

(***************************************************************************)
(* RocStrInner: a union of SmallString {bytes, len} and RocList<u8>.       *)
(* `variant` records which member was written; the code never reads it: it *)
(* reads the last byte of the 24 bytes through small_string.len.           *)
(***************************************************************************)
NoBytes == [i \in 1..CAPACITY |-> 0]
SmallStr(bytes, len) ==
    [variant |-> "small", bytes |-> bytes, len |-> len,
     elements |-> 0, length |-> 0, capacity |-> 0]
HeapStr(l) ==
    [variant |-> "heap", bytes |-> << >>, len |-> 0,
     elements |-> l.elements, length |-> l.length, capacity |-> l.capacity]
ListOf(v) == [elements |-> v.elements, length |-> v.length, capacity |-> v.capacity]

\* The byte of the value at offset CAPACITY: SmallString.len, which for the
\* heap member is the most significant byte of `capacity` (little endian).
LenByte(v) ==
    IF v.variant = "small" THEN v.len
    ELSE (((v.capacity \div 16777216) \div 16777216) \div 256) % 256

\* SmallString::is_small_str / RocStr::is_small_str: len & MASK != 0
is_small_str(v) == LenByte(v) >= MASK

\* A length that keeps the discriminant bit.
small_len_unmasked(v) == v.len

\* SmallString::len: len & !MASK
small_len(v) == IF v.len >= MASK THEN v.len - MASK ELSE v.len

\* SmallString::empty / RocStr::empty
empty == SmallStr(NoBytes, MASK)

\* A size check that sends a slice of exactly CAPACITY bytes to the heap.
try_from_utf8_bytes_off_by_one(slice) ==
    IF Len(slice) > U8Max THEN None
    ELSE IF Len(slice) >= CAPACITY THEN None
    ELSE Some(SmallStr([i \in 1..CAPACITY |-> IF i <= Len(slice) THEN slice[i] ELSE 0],
                       IF Len(slice) >= MASK THEN Len(slice) ELSE Len(slice) + MASK))

\* SmallString::try_from_utf8_bytes
try_from_utf8_bytes(slice) ==
    IF Len(slice) > U8Max THEN None
    ELSE IF Len(slice) > CAPACITY THEN None
    ELSE Some(SmallStr([i \in 1..CAPACITY |-> IF i <= Len(slice) THEN slice[i] ELSE 0],
                       IF Len(slice) >= MASK THEN Len(slice) ELSE Len(slice) + MASK))

\* RocStr::from_slice_unchecked
from_slice_unchecked(slice, hp) ==
    LET small == try_from_utf8_bytes(slice)
    IN IF small.some THEN [val |-> small.v, hp |-> hp]
       ELSE LET r == RocList_from_slice(slice, hp)
            IN [val |-> HeapStr(r.list), hp |-> r.hp]

\* RocStr::capacity
capacity(v) == IF is_small_str(v) THEN CAPACITY ELSE v.capacity

\* RocStr::len
len(v) == IF is_small_str(v) THEN small_len(v) ELSE v.length

\* RocStr::is_empty
is_empty(v) == len(v) = 0

\* Deref for SmallString: bytes[..len]
small_deref(v) == SubSeq(v.bytes, 1, small_len(v))

\* Deref for RocStr / RocStr::as_str
as_str(v, hp) == IF is_small_str(v) THEN small_deref(v) ELSE RocList_deref(ListOf(v), hp)

\* SmallString::first_nul_byte: the loop over bytes[0..len], index from 0.
RECURSIVE small_scan(_, _, _)
small_scan(bytes, index, n) ==
    IF index >= n THEN None
    ELSE IF bytes[index + 1] = 0 THEN Some(index)
    ELSE small_scan(bytes, index + 1, n)
small_first_nul_byte(v) == small_scan(v.bytes, 0, small_len(v))

\* roc_list.iter().position(|byte| *byte == 0)
position_nul(s) ==
    IF \E i \in 1..Len(s) : s[i] = 0
    THEN Some((CHOOSE i \in 1..Len(s) : s[i] = 0 /\ \A j \in 1..(i - 1) : s[j] # 0) - 1)
    ELSE None

\* A scan that reports the last zero byte instead of the first.
first_nul_byte_last(v, hp) ==
    LET s == as_str(v, hp)
    IN IF \E i \in 1..Len(s) : s[i] = 0
       THEN Some((CHOOSE i \in 1..Len(s) : s[i] = 0 /\ \A j \in (i + 1)..Len(s) : s[j] # 0) - 1)
       ELSE None

\* RocStr::first_nul_byte
first_nul_byte(v, hp) ==
    IF is_small_str(v) THEN small_first_nul_byte(v)
    ELSE position_nul(RocList_deref(ListOf(v), hp))

(***************************************************************************)
(* Comparison and hashing go through the string slice.                     *)
(***************************************************************************)
Min(a, b) == IF a <= b THEN a ELSE b

\* <str as PartialEq>::eq: same length and same bytes
str_eq(a, b) == Len(a) = Len(b) /\ \A i \in 1..Len(a) : a[i] = b[i]

\* <str as Ord>::cmp: compare the common prefix, then the lengths
str_cmp(a, b) ==
    LET n == Min(Len(a), Len(b))
        diff == {i \in 1..n : a[i] # b[i]}
    IN IF diff # {}
       THEN LET d == CHOOSE i \in diff : \A j \in diff : i <= j
            IN IF a[d] < b[d] THEN "Less" ELSE "Greater"
       ELSE IF Len(a) < Len(b) THEN "Less"
       ELSE IF Len(a) > Len(b) THEN "Greater"
       ELSE "Equal"

\* An equality that compares the representations instead of the contents.
eq_by_repr(x, y, hp) == x = y

\* PartialEq for RocStr
eq(x, y, hp) == str_eq(as_str(x, hp), as_str(y, hp))

\* Ord for RocStr
cmp(x, y, hp) == str_cmp(as_str(x, hp), as_str(y, hp))

\* PartialOrd for RocStr
partial_cmp(x, y, hp) == Some(str_cmp(as_str(x, hp), as_str(y, hp)))

\* Hash for RocStr: the bytes the hasher is fed (str::hash writes the bytes
\* of the slice and then 0xff).
hash(v, hp) == as_str(v, hp) \o << U8Max >>

(***************************************************************************)
(* Clone and Drop.  Both return the heap after the operation.              *)
(***************************************************************************)
\* Clone for RocStr: the new value has the same 24 bytes as the original.
clone(v, hp) ==
    IF is_small_str(v) THEN [val |-> v, hp |-> hp]
    ELSE [val |-> v, hp |-> RocList_clone(ListOf(v), hp)]

\* A drop that never releases the heap buffer.
drop_never(v, hp) == hp

\* Drop for RocStr
drop(v, hp) ==
    IF ~is_small_str(v) THEN RocList_drop(ListOf(v), hp) ELSE hp

(***************************************************************************)
(* temp_c_utf8.                                                            *)
(*                                                                         *)
(* Each strategy prepares a buffer and yields what the consumer is given:  *)
(* whether the pointer is null, the bytes at ptr[0..len), the byte read    *)
(* at ptr[len], and whether ptr[len] lies inside the buffer the pointer    *)
(* points into.  A write of the terminator past the end of its buffer is   *)
(* undefined behaviour; `stray` is where that one byte ends up:            *)
(*   "slack": in memory nobody owns, where it reads back as zero;          *)
(*   "lost" : the slot holds something else when the consumer reads it;    *)
(*   "alloc": on the first byte of the live allocation `a` lying directly  *)
(*            behind the buffer (heap buffers only).                       *)
(* "none" is the stray of a run that writes inside its buffer.             *)
(***************************************************************************)
Stray(where, a) == [where |-> where, a |-> a]
NoStray == Stray("none", 0)
StrayByte(stray) == IF stray.where = "lost" THEN U8Max ELSE 0
StrayHeap(hp, stray) ==
    IF stray.where = "alloc" THEN [hp EXCEPT ![stray.a].mem[1] = 0] ELSE hp

Prepared(branch, seen, term, inside, hp, requests, temp) ==
    [branch |-> branch, ptr_null |-> FALSE, arg_len |-> Len(seen), seen |-> seen, term |-> term,
     term_in_buf |-> inside, hp |-> hp, requests |-> requests, temp |-> temp]

\* RocStrInnerRef::SmallString arm: `bytes` is a copy of small_str.bytes,
\* CAPACITY bytes long; the terminator goes to bytes[len].
temp_small(self, hp, stray) ==
    LET n == small_len(self)
        bytes == self.bytes
    IN IF n < Len(bytes)
       THEN LET buf == [bytes EXCEPT ![n + 1] = 0]
            IN Prepared("small", SubSeq(buf, 1, n), buf[n + 1], TRUE, hp, << >>, 0)
       ELSE Prepared("small", SubSeq(bytes, 1, n), StrayByte(stray), FALSE, hp, << >>, 0)

\* Unique arm: terminate in place, in the excess capacity or, when there is
\* none, after shifting the bytes to the start of the allocation.
temp_unique(self, hp) ==
    LET n == self.length
        a == self.elements
        mem == hp[a].mem
    IN IF n < self.capacity
       THEN LET m1 == [mem EXCEPT ![HeaderBytes + n + 1] = 0]
            IN Prepared("unique_excess", SubSeq(m1, HeaderBytes + 1, HeaderBytes + n),
                        m1[HeaderBytes + n + 1], TRUE,
                        [hp EXCEPT ![a].mem = m1], << >>, 0)
       ELSE LET shifted == [i \in 1..Len(mem) |-> IF i <= n THEN mem[HeaderBytes + i] ELSE mem[i]]
                m1 == [shifted EXCEPT ![n + 1] = 0]
            IN Prepared("unique_shift", SubSeq(m1, 1, n), m1[n + 1], TRUE,
                        [hp EXCEPT ![a].mem = m1], << >>, 0)

\* Shared arm, len < TEMP_CSTR_MAX_STACK_BYTES: a scratch array on the stack.
temp_shared_stack(self, hp) ==
    LET n == self.length
        elems == SubSeq(hp[self.elements].mem, HeaderBytes + 1, HeaderBytes + n)
        copied == [i \in 1..TEMP_CSTR_MAX_STACK_BYTES |-> IF i <= n THEN elems[i] ELSE Uninit]
        buf == [copied EXCEPT ![n + 1] = 0]
    IN Prepared("shared_stack", SubSeq(buf, 1, n), buf[n + 1], TRUE, hp, << >>, 0)

\* The size temp_c_utf8 asks roc_alloc for: roc_alloc(len, align).
temp_alloc_size(n) == n

\* Shared arm, len >= TEMP_CSTR_MAX_STACK_BYTES: a fresh allocation.
temp_shared_alloc(self, hp, stray) ==
    LET n == self.length
        size == temp_alloc_size(n)
        t == FreshAlloc(hp)
        hp1 == roc_alloc(hp, size, "temp")
        elems == SubSeq(hp[self.elements].mem, HeaderBytes + 1, HeaderBytes + n)
        copied == [i \in 1..size |-> IF i <= n THEN elems[i] ELSE hp1[t].mem[i]]
    IN IF n < size
       THEN LET buf == [copied EXCEPT ![n + 1] = 0]
            IN Prepared("shared_alloc", SubSeq(buf, 1, n), buf[n + 1], TRUE,
                        [hp1 EXCEPT ![t].mem = buf], << size >>, t)
       ELSE Prepared("shared_alloc", SubSeq(copied, 1, n), StrayByte(stray), FALSE,
                     StrayHeap([hp1 EXCEPT ![t].mem = copied], stray), << size >>, t)

\* None arm: the backing list is empty; the buffer is [0i8].
temp_empty_list(self, hp) ==
    Prepared("empty_list", << >>, 0, TRUE, hp, << >>, 0)

\* A threshold one byte too low.
fits_stack_off_by_one(n) == n + 1 < TEMP_CSTR_MAX_STACK_BYTES

\* The threshold test of the shared arm: len < Self::TEMP_CSTR_MAX_STACK_BYTES
fits_stack(n) == n < TEMP_CSTR_MAX_STACK_BYTES

\* The match of temp_c_utf8 on representation and ownership.
temp_prepare(self, hp, stray) ==
    IF is_small_str(self) THEN temp_small(self, hp, stray)
    ELSE IF self.elements = 0 THEN temp_empty_list(self, hp)
    ELSE IF is_unique(ListOf(self), hp) THEN temp_unique(self, hp)
    ELSE IF fits_stack(self.length) THEN temp_shared_stack(self, hp)
    ELSE temp_shared_alloc(self, hp, stray)

\* The strays a call on `self` can produce.
Strays(self, hp) ==
    IF first_nul_byte(self, hp).some THEN {NoStray}
    ELSE IF is_small_str(self)
    THEN IF small_len(self) < CAPACITY THEN {NoStray}
         ELSE {Stray("slack", 0), Stray("lost", 0)}
    ELSE IF self.elements = 0 \/ is_unique(ListOf(self), hp) \/ fits_stack(self.length)
    THEN {NoStray}
    ELSE IF self.length < temp_alloc_size(self.length) THEN {NoStray}
    ELSE {Stray("slack", 0), Stray("lost", 0)}
         \cup {Stray("alloc", a) : a \in {b \in AllocIds : hp[b].live}}

\* Whether the call asks the allocator for memory.
NeedsAlloc(self, hp) ==
    /\ ~first_nul_byte(self, hp).some
    /\ ~is_small_str(self)
    /\ self.elements # 0
    /\ ~is_unique(ListOf(self), hp)
    /\ ~fits_stack(self.length)

\* RocStr::temp_c_utf8(self, func).  `outcome` is what func does when it is
\* called: "returns" or "panics".  The result holds the Result returned
\* (ret, pos, roc_str), what func was given, the requests made of the
\* allocator, the temporary allocations made and released, the reference
\* count header the destructor of `self` finds, and the heap when the call is
\* over, `self` dropped unless it went back in the error.
temp_c_utf8(self, hp, outcome, stray) ==
    LET nul == first_nul_byte(self, hp)
    IN IF nul.some
       THEN [ret |-> "Err", pos |-> nul.v, roc_str |-> self, calls |-> 0,
             ptr_null |-> FALSE, arg_len |-> 0, seen |-> << >>, term |-> 0,
             term_in_buf |-> TRUE, branch |-> "interior_nul", requests |-> << >>,
             temps |-> 0, releases |-> 0, drop_header |-> << >>, hp |-> hp]
       ELSE LET p == temp_prepare(self, hp, stray)
                returned == outcome = "returns"
                freed == p.temp # 0 /\ returned
                hp1 == IF freed THEN roc_dealloc(p.hp, p.temp) ELSE p.hp
            IN [ret |-> IF returned THEN "Ok" ELSE "Unwind",
                pos |-> 0, roc_str |-> empty, calls |-> 1,
                ptr_null |-> p.ptr_null, arg_len |-> p.arg_len, seen |-> p.seen,
                term |-> p.term, term_in_buf |-> p.term_in_buf, branch |-> p.branch,
                requests |-> p.requests,
                temps |-> IF p.temp # 0 THEN 1 ELSE 0,
                releases |-> IF freed THEN 1 ELSE 0,
                drop_header |-> IF is_small_str(self) \/ self.elements = 0 THEN << >>
                                ELSE Header(hp1, self.elements),
                hp |-> drop(self, hp1)]

(***************************************************************************)
(* Inputs.  A run works on strings of one length, base, and on the string  *)
(* one byte shorter; base is one of the boundaries of the code: empty,     *)
(* CAPACITY, the stack threshold, the range of u8.                         *)
(***************************************************************************)
Bases ==
    {0, 1, CAPACITY, CAPACITY + 1,
     TEMP_CSTR_MAX_STACK_BYTES - 1, TEMP_CSTR_MAX_STACK_BYTES,
     TEMP_CSTR_MAX_STACK_BYTES + 1, U8Max + 1}

\* ASCII content of length n in pattern pat.  nul = 0: no zero byte; 1: a zero
\* byte at the start and at the end; 2: in the middle and at the end.
Content(n, pat, nul) ==
    [i \in 1..n |->
        IF nul >= 1 /\ i = n THEN 0
        ELSE IF nul = 1 /\ i = 1 THEN 0
        ELSE IF nul = 2 /\ i = (n + 1) \div 2 THEN 0
        ELSE 97 + ((i * pat) % 3)]
SliceInputs(b) ==
    {Content(b, pat, 0) : pat \in 1..MaxPat}
    \cup {Content(n, 1, 0) : n \in {b - 1} \cap Nat}
    \cup {Content(n, 1, nul) : n \in {b} \ {0}, nul \in 1..2}
\* Lists as long as the range of u8 reach no branch the slices of that length
\* do not reach: none is made.
ListInputs(b) ==
    IF b > U8Max THEN {}
    ELSE {Content(b, 1, 0)} \cup {Content(n, 1, 2) : n \in {b} \ {0}}

(***************************************************************************)
(* State.                                                                  *)
(***************************************************************************)
VARIABLES
    strs,   \* the live RocStr values, a bag of [val, src, origin, allocated]:
            \* src is the byte sequence the value was made from
    heap,   \* the allocations
    pc,     \* "idle"; "returned" right after a temp_c_utf8 call; "undefined"
            \* after a call whose terminator landed in another allocation:
            \* the run is not followed past that
    res,    \* the last temp_c_utf8 call: the value consumed, the heap before,
            \* and the result
    base    \* the base length of the run's inputs
vars == << strs, heap, pc, res, base >>

NoCall ==
    [self |-> empty, src |-> << >>, pre |-> EmptyHeap, others |-> 0, outcome |-> "none",
     r |-> [ret |-> "None", pos |-> 0, roc_str |-> empty, calls |-> 0,
            ptr_null |-> FALSE, arg_len |-> 0, seen |-> << >>, term |-> 0,
            term_in_buf |-> TRUE, branch |-> "none", requests |-> << >>,
            temps |-> 0, releases |-> 0, drop_header |-> << >>, hp |-> EmptyHeap]]

Handles == BagToSet(strs)
One_(h) == SetToBag({h})

\* The number of live values whose heap member points at allocation a.
RECURSIVE SumCopies(_, _)
SumCopies(S, b) ==
    IF S = {} THEN 0
    ELSE LET h == CHOOSE x \in S : TRUE
         IN CopiesIn(h, b) + SumCopies(S \ {h}, b)
Owners(a, b) ==
    SumCopies({h \in BagToSet(b) : ~is_small_str(h.val) /\ h.val.elements = a}, b)

Init ==
    /\ strs = EmptyBag
    /\ heap = EmptyHeap
    /\ pc = "idle"
    /\ res = NoCall
    /\ base \in Bases

\* RocStr::from_slice_unchecked(slice) / From<&str>
FromSlice ==
    /\ pc = "idle"
    /\ BagCardinality(strs) < MaxStrs
    /\ \E slice \in SliceInputs(base) :
        /\ try_from_utf8_bytes(slice).some \/ HasFree(heap)
        /\ LET r == from_slice_unchecked(slice, heap)
           IN /\ strs' = strs (+) One_([val |-> r.val, src |-> slice, origin |-> "slice",
                                       allocated |-> r.hp # heap])
              /\ heap' = r.hp
    /\ UNCHANGED << pc, res, base >>

\* A RocStr whose heap member holds a list made by RocList: any length, with
\* or without excess capacity, possibly the empty list.  (Excess capacity is
\* tried on the contents without a zero byte, which are the ones that reach
\* the branches it matters to.)
HeapFromList ==
    /\ pc = "idle"
    /\ BagCardinality(strs) < MaxStrs
    /\ HasFree(heap)
    /\ \E slice \in ListInputs(base), extra \in 0..MaxExtra :
        LET r == RocList_with(slice, Len(slice) + extra, heap)
        IN /\ extra > 0 => \A i \in 1..Len(slice) : slice[i] # 0
           /\ strs' = strs (+) One_([val |-> HeapStr(r.list), src |-> slice,
                                    origin |-> "list", allocated |-> r.hp # heap])
           /\ heap' = r.hp
    /\ UNCHANGED << pc, res, base >>

\* Clone for RocStr
CloneStr ==
    /\ pc = "idle"
    /\ BagCardinality(strs) < MaxStrs
    /\ \E h \in Handles :
        LET r == clone(h.val, heap)
        IN /\ strs' = strs (+) One_([h EXCEPT !.val = r.val])
           /\ heap' = r.hp
    /\ UNCHANGED << pc, res, base >>

\* Drop for RocStr
DropStr ==
    /\ pc = "idle"
    /\ \E h \in Handles :
        /\ strs' = strs (-) One_(h)
        /\ heap' = drop(h.val, heap)
    /\ UNCHANGED << pc, res, base >>

\* RocStr::temp_c_utf8(self, func)
TempCUtf8 ==
    /\ pc = "idle"
    /\ \E h \in Handles, outcome \in {"returns", "panics"} :
        /\ NeedsAlloc(h.val, heap) => HasFree(heap)
        /\ \E stray \in Strays(h.val, heap) :
            LET r == temp_c_utf8(h.val, heap, outcome, stray)
            IN /\ strs' = IF r.ret = "Err"
                          THEN (strs (-) One_(h)) (+) One_([h EXCEPT !.val = r.roc_str])
                          ELSE strs (-) One_(h)
               /\ heap' = r.hp
               /\ res' = [self |-> h.val, src |-> h.src, pre |-> heap,
                          others |-> IF is_small_str(h.val) \/ h.val.elements = 0 THEN 0
                                     ELSE Owners(h.val.elements, strs) - 1,
                          outcome |-> IF r.calls = 0 THEN "none" ELSE outcome,
                          r |-> r]
               /\ pc' = IF stray.where = "alloc" THEN "undefined" ELSE "returned"
    /\ UNCHANGED base

\* The caller takes the result.
Resume ==
    /\ pc = "returned"
    /\ pc' = "idle"
    /\ res' = NoCall
    /\ UNCHANGED << strs, heap, base >>

Next == FromSlice \/ HeapFromList \/ CloneStr \/ DropStr \/ TempCUtf8 \/ Resume

Spec == Init /\ [][Next]_vars

\* Construction, clone and drop only.
NextCloneDrop == FromSlice \/ HeapFromList \/ CloneStr \/ DropStr
SpecCloneDrop == Init /\ [][NextCloneDrop]_vars

(***************************************************************************)
(* Vocabulary of the properties.                                           *)
(***************************************************************************)
Called == pc # "idle"
HasNul(s) == \E i \in 1..Len(s) : s[i] = 0
\* s has a zero byte at index p (from 0) and none before it
FirstNulAt(s, p) == p + 1 \in 1..Len(s) /\ s[p + 1] = 0 /\ \A j \in 1..p : s[j] # 0
\* the consumed value was heap-backed and other live values held the same allocation
WasShared == ~is_small_str(res.self) /\ res.self.elements # 0 /\ res.others > 0
LiveTemps(hp) == {a \in AllocIds : hp[a].live /\ hp[a].kind = "temp"}
\* the reference count header that holds the count n
CountBytes(n) == [i \in 1..HeaderBytes |-> IF i = 1 THEN n % 256 ELSE IF i = 2 THEN n \div 256 ELSE 0]
\* lexicographic order of byte strings
Lex(a, b) ==
    IF a = b THEN "Equal"
    ELSE IF \E k \in 0..Min(Len(a), Len(b)) :
                /\ \/ k = Len(a) /\ k < Len(b)
                   \/ k < Len(a) /\ k < Len(b) /\ a[k + 1] < b[k + 1]
                /\ \A j \in 1..k : a[j] = b[j]
         THEN "Less"
    ELSE "Greater"

\* C1: for a value without a zero byte and a consumer that returns,
\* temp_c_utf8 returns Ok after calling the consumer exactly once with a
\* non-null pointer and the value's length; the bytes at pointer[0..length)
\* are the content and pointer[length] is a zero byte of the buffer, on every
\* strategy branch.
C1_TerminatedOnEveryBranch ==
    (Called /\ ~HasNul(res.src) /\ res.outcome = "returns") =>
        /\ res.r.ret = "Ok"
        /\ res.r.calls = 1
        /\ ~res.r.ptr_null
        /\ res.r.arg_len = Len(res.src)
        /\ res.r.seen = res.src
        /\ res.r.term_in_buf
        /\ res.r.term = 0

\* C2: for a value, inline or heap, whose first zero byte is at position p,
\* temp_c_utf8 returns Err with pos = p and the value, content unchanged,
\* without calling the consumer, writing a byte, changing a reference count
\* or asking the allocator for memory.
C2_InteriorNulReturnsValue ==
    (Called /\ HasNul(res.src)) =>
        /\ res.r.ret = "Err"
        /\ FirstNulAt(res.src, res.r.pos)
        /\ res.r.roc_str = res.self
        /\ as_str(res.r.roc_str, heap) = res.src
        /\ \E h \in Handles : h.val = res.r.roc_str /\ h.src = res.src
        /\ res.r.calls = 0
        /\ heap = res.pre
        /\ res.r.requests = << >>
C2_Witness ==
    /\ pc = "returned"
    /\ res.r.ret = "Err"
    /\ res.r.pos > 0
    /\ ~is_small_str(res.self)
    /\ res.others > 0

\* C3: when the consumed value shared its allocation with other live values,
\* the allocation is still live after the call and its bytes are those from
\* before the call, except that the reference count is one lower.
C3_SharedAllocationUntouched ==
    (Called /\ WasShared /\ res.r.ret # "Err") =>
        LET a == res.self.elements
        IN /\ heap[a].live
           /\ heap[a].mem = SetHeader(res.pre, a, DecAt(Header(res.pre, a), 1))[a].mem

\* C4: under construction, clone and drop alone, an allocation is live
\* exactly while some value holds it, its reference count is the number of
\* values holding it (a clone shares, it does not copy), every value still
\* reads its content, and inline values hold no allocation.
C4_SharesAndFrees ==
    /\ \A a \in AllocIds :
        /\ heap[a].live <=> Owners(a, strs) > 0
        /\ heap[a].live => Header(heap, a) = CountBytes(Owners(a, strs))
    /\ \A h \in Handles :
        /\ as_str(h.val, heap) = h.src
        /\ is_small_str(h.val) => h.val.elements = 0
C4_Witness ==
    \E a \in AllocIds : heap[a].live /\ Owners(a, strs) = 2

\* C5: from_slice_unchecked(b) is inline, without a heap allocation, exactly
\* when len(b) <= CAPACITY, and heap-backed otherwise.
C5_InlineIffFits ==
    \A h \in Handles :
        h.origin = "slice" =>
            /\ is_small_str(h.val) <=> Len(h.src) <= CAPACITY
            /\ is_small_str(h.val) => ~h.allocated
            /\ ~is_small_str(h.val) => h.allocated /\ h.val.elements # 0
C5_Witness ==
    \E x, y \in Handles :
        /\ x.origin = "slice" /\ Len(x.src) = CAPACITY /\ is_small_str(x.val)
        /\ y.origin = "slice" /\ Len(y.src) = CAPACITY + 1 /\ ~is_small_str(y.val)

\* C6: the value made from s reads back as s, byte for byte; len() is the
\* byte count of s, is_empty() holds exactly when s is empty, and
\* capacity() >= len().
C6_RoundTrip ==
    \A h \in Handles :
        h.origin = "slice" =>
            /\ len(h.val) = Len(h.src)
            /\ as_str(h.val, heap) = h.src
            /\ is_empty(h.val) <=> h.src = << >>
            /\ capacity(h.val) >= len(h.val)
C6_Witness ==
    \E x, y \in Handles :
        /\ x.origin = "slice" /\ Len(x.src) = CAPACITY /\ as_str(x.val, heap) = x.src
        /\ y.origin = "slice" /\ Len(y.src) > CAPACITY /\ as_str(y.val, heap) = y.src

\* C7: two values are equal exactly when their contents are byte-for-byte
\* equal, whatever their representation and allocation; their order is the
\* lexicographic order of the contents; equal values hash alike.
C7_EqOrdHashByContent ==
    \A x, y \in Handles :
        /\ eq(x.val, y.val, heap) <=> x.src = y.src
        /\ cmp(x.val, y.val, heap) = Lex(x.src, y.src)
        /\ partial_cmp(x.val, y.val, heap) = Some(Lex(x.src, y.src))
        /\ eq(x.val, y.val, heap) => hash(x.val, heap) = hash(y.val, heap)
C7_Witness ==
    \E x, y \in Handles :
        /\ x.src = y.src /\ x.src # << >>
        /\ is_small_str(x.val) /\ ~is_small_str(y.val)
        /\ eq(x.val, y.val, heap)

\* C8: temp_c_utf8 asks the allocator for memory only for a heap-backed value
\* that is not uniquely owned and has len >= 64: never for an inline value, a
\* uniquely owned one, a shared one shorter than 64, or an empty string.
C8_AllocatesOnlySharedLong ==
    Called =>
        /\ res.r.requests # << >> =>
            WasShared /\ Len(res.src) >= TEMP_CSTR_MAX_STACK_BYTES
        /\ Len(res.r.requests) <= 1
        /\ (is_small_str(res.self) \/ res.others = 0
            \/ Len(res.src) < TEMP_CSTR_MAX_STACK_BYTES) => res.r.requests = << >>
C8_Witness ==
    /\ pc = "returned"
    /\ res.r.requests # << >>
    /\ WasShared

\* C9: every temporary allocation temp_c_utf8 obtains is released exactly
\* once before it returns, also when the consumer does not return normally.
C9_TemporaryReleased ==
    Called =>
        /\ res.r.releases = res.r.temps
        /\ LiveTemps(heap) = LiveTemps(res.pre)

\* C10: on the shared branch with len >= 64, temp_c_utf8 requests exactly
\* len + 1 bytes, so the copied bytes and the terminator lie in the region.
C10_RequestsLenPlusOne ==
    (Called /\ res.r.branch = "shared_alloc") =>
        /\ res.r.requests = << Len(res.src) + 1 >>
        /\ res.r.term_in_buf

\* C11: on the inline branch, for every length from 0 through CAPACITY, the
\* zero terminator is written into a slot of the buffer whose address the
\* consumer is given (for length CAPACITY, its length byte), never outside it.
C11_InlineTerminatorInsideBuffer ==
    (Called /\ res.r.branch = "small") =>
        /\ Len(res.src) <= CAPACITY
        /\ res.r.term_in_buf

\* C12: a successful call on a heap value releases exactly the share it
\* consumed: the destructor finds the valid reference count in the header;
\* a shared allocation stays live with the count one lower; a uniquely owned
\* one is freed by the time the call returns.
C12_ReleasesOneShare ==
    (Called /\ res.r.ret = "Ok" /\ ~is_small_str(res.self) /\ res.self.elements # 0) =>
        LET a == res.self.elements
        IN /\ res.r.drop_header = CountBytes(res.others + 1)
           /\ res.others > 0 => heap[a].live /\ Header(heap, a) = CountBytes(res.others)
           /\ res.others = 0 => ~heap[a].live

====
